---- MODULE Spec2Model ----
(***************************************************************************)
(* The assistant bot of src/main.py: an address book of records (name,     *)
(* phones, birthday), the command handlers wrapped by input_error, the     *)
(* read-eval-print loop of main, and the pickle snapshot written on        *)
(* close/exit and read at start.                                           *)
(*                                                                         *)
(* Python strings are TLA+ strings.  Where the code looks inside a string  *)
(* (str.isdigit, len, strptime) the model reads the string's code points   *)
(* from CodePoints.  An optional value (Birthday.value, which is None or a *)
(* str) is a sequence of length 0 or 1.                                    *)
(***************************************************************************)
EXTENDS Integers, Sequences, FiniteSets, TLC

VARIABLES
    book,   \* the AddressBook of main
    disk,   \* the file addressbook.pkl
    pc,     \* where main is: "start", "loop" (at input), "done"
    line,   \* the line of input handled last
    out,    \* the lines printed for it
    now     \* the time datetime.now() gave while it was handled, if it was read

vars == <<book, disk, pc, line, out, now>>

\* A record's phone list is capped at MaxPhones by the guards of the actions.
MaxPhones == 2

---------------------------------------------------------------------------
(* Strings the user types, with their characters.                          *)

\* "1234567890" spelled with ARABIC-INDIC DIGITs U+0661..U+0669, U+0660.
ArabicIndicPhone == "<U+0661><U+0662><U+0663><U+0664><U+0665><U+0666><U+0667><U+0668><U+0669><U+0660>"

\* The Unicode code points of the strings used as arguments.
CodePoints(s) ==
    CASE s = "1234567890"     -> <<49, 50, 51, 52, 53, 54, 55, 56, 57, 48>>
      [] s = "0987654321"     -> <<48, 57, 56, 55, 54, 53, 52, 51, 50, 49>>
      [] s = ArabicIndicPhone -> <<1633, 1634, 1635, 1636, 1637, 1638, 1639, 1640, 1641, 1632>>
      [] s = "12345"          -> <<49, 50, 51, 52, 53>>
      [] s = "12345678901"    -> <<49, 50, 51, 52, 53, 54, 55, 56, 57, 48, 49>>
      [] s = "12345abcde"     -> <<49, 50, 51, 52, 53, 97, 98, 99, 100, 101>>
      [] s = "15.06.1990"     -> <<49, 53, 46, 48, 54, 46, 49, 57, 57, 48>>
      [] s = "01.01.1995"     -> <<48, 49, 46, 48, 49, 46, 49, 57, 57, 53>>
      [] s = "29.02.2000"     -> <<50, 57, 46, 48, 50, 46, 50, 48, 48, 48>>
      [] s = "31.02.2000"     -> <<51, 49, 46, 48, 50, 46, 50, 48, 48, 48>>
      [] s = "1990-06-15"     -> <<49, 57, 57, 48, 45, 48, 54, 45, 49, 53>>
      [] s = "alice"          -> <<97, 108, 105, 99, 101>>
      [] s = "bob"            -> <<98, 111, 98>>
      [] OTHER                -> <<120>>   \* any other word: "x", no phone and no date

\* str.isdecimal / the regular expression \d: Unicode category Nd
\* (of the characters above: ASCII 0-9 and ARABIC-INDIC 0-9).
IsDecimalChar(c) == c \in 48..57 \/ c \in 1632..1641

\* The value of a decimal character.
DecimalValue(c) == IF c \in 48..57 THEN c - 48 ELSE c - 1632

\* str.isdigit on one character: the decimal characters and the digits that
\* are not decimal (superscript two, three and one).
IsDigitChar(c) == IsDecimalChar(c) \/ c \in {178, 179, 185}

\* str.isdigit: true when the string is not empty and all characters are digits.
isdigit(s) ==
    LET cp == CodePoints(s)
    IN Len(cp) > 0 /\ \A i \in 1..Len(cp) : IsDigitChar(cp[i])

\* Whether a string is exactly ten ASCII decimal digits.
IsTenAsciiDigits(s) ==
    LET cp == CodePoints(s)
    IN Len(cp) = 10 /\ \A i \in 1..Len(cp) : cp[i] \in 48..57

---------------------------------------------------------------------------
(* Fields.                                                                 *)

\* Phone.__init__ succeeds (every argument here is a str).
Phone(number) == isdigit(number) /\ Len(CodePoints(number)) = 10

PhoneError == "The phone number must be a string of 10 digits"

\* Birthday.__bool__ does not exist, nor does Field.__len__: Python takes an
\* object of a class that defines neither as true, whatever its value.
BirthdayTruthy(birthday) == TRUE

BirthdayError == "Birthday must be in format DD.MM.YYYY"

---------------------------------------------------------------------------
(* datetime: a date is [year, month, day]; a datetime adds the hour, which *)
(* stands for the time of day (0 is midnight).                             *)

IsLeap(y) == (y % 4 = 0) /\ ((y % 100 # 0) \/ (y % 400 = 0))

DaysInMonth(y, m) ==
    IF m = 2 THEN (IF IsLeap(y) THEN 29 ELSE 28)
    ELSE IF m \in {4, 6, 9, 11} THEN 30 ELSE 31

RECURSIVE DaysBeforeMonth(_, _)
DaysBeforeMonth(y, m) ==
    IF m = 1 THEN 0 ELSE DaysBeforeMonth(y, m - 1) + DaysInMonth(y, m - 1)

\* date.toordinal: 1 is 0001-01-01.
toordinal(d) ==
    LET y == d.year - 1
    IN y * 365 + (y \div 4) - (y \div 100) + (y \div 400)
       + DaysBeforeMonth(d.year, d.month) + d.day

\* date.weekday: 0 is Monday, 5 Saturday, 6 Sunday.
weekday(d) == (toordinal(d) + 6) % 7

\* d + timedelta(days=n), for n >= 0.
RECURSIVE PlusDays(_, _)
PlusDays(d, n) ==
    IF n = 0 THEN d
    ELSE IF d.day < DaysInMonth(d.year, d.month)
         THEN PlusDays([d EXCEPT !.day = d.day + 1], n - 1)
    ELSE IF d.month < 12
         THEN PlusDays([d EXCEPT !.month = d.month + 1, !.day = 1], n - 1)
    ELSE PlusDays([d EXCEPT !.year = d.year + 1, !.month = 1, !.day = 1], n - 1)

\* datetime.replace(year=y): <<the datetime>>, or <<>> for the ValueError
\* "day is out of range for month" (29 February in a year that has none).
ReplaceYear(d, y) ==
    IF d.day <= DaysInMonth(y, d.month) THEN <<[d EXCEPT !.year = y]>> ELSE <<>>

\* a < b on datetimes.
DatetimeLess(a, b) ==
    \/ toordinal(a) < toordinal(b)
    \/ toordinal(a) = toordinal(b) /\ a.hour < b.hour

\* (a - b).days: the timedelta is normalised so that its seconds are not
\* negative, which makes days the floor of the difference.
TimedeltaDays(a, b) ==
    ((toordinal(a) * 24 + a.hour) - (toordinal(b) * 24 + b.hour)) \div 24

Pad2(n) == IF n < 10 THEN "0" \o ToString(n) ELSE ToString(n)

\* datetime.strftime("%d.%m.%Y"), for years of four digits.
strftime(d) == Pad2(d.day) \o "." \o Pad2(d.month) \o "." \o ToString(d.year)

\* The fields of a string between the separator characters.
RECURSIVE SplitAt(_, _, _)
SplitAt(cp, sep, cur) ==
    IF cp = <<>> THEN <<cur>>
    ELSE IF Head(cp) = sep THEN <<cur>> \o SplitAt(Tail(cp), sep, <<>>)
    ELSE SplitAt(Tail(cp), sep, Append(cur, Head(cp)))

AllDecimal(f) == \A i \in 1..Len(f) : IsDecimalChar(f[i])

\* int() of a string of decimal characters.
RECURSIVE IntOf(_, _)
IntOf(f, acc) ==
    IF f = <<>> THEN acc ELSE IntOf(Tail(f), acc * 10 + DecimalValue(Head(f)))

\* datetime.strptime(value, "%d.%m.%Y"): <<the datetime>>, or <<>> for the
\* ValueError.  The format's regular expression takes a day of one or two
\* digits from 1 to 31, a month of one or two digits from 1 to 12 and a year
\* of four digits, and nothing else; the date must exist.
strptime(value) ==
    LET f == SplitAt(CodePoints(value), 46, <<>>)
    IN IF /\ Len(f) = 3
          /\ Len(f[1]) \in {1, 2} /\ AllDecimal(f[1]) /\ IntOf(f[1], 0) \in 1..31
          /\ Len(f[2]) \in {1, 2} /\ AllDecimal(f[2]) /\ IntOf(f[2], 0) \in 1..12
          /\ Len(f[3]) = 4 /\ AllDecimal(f[3]) /\ IntOf(f[3], 0) >= 1
          /\ IntOf(f[1], 0) <= DaysInMonth(IntOf(f[3], 0), IntOf(f[2], 0))
       THEN <<[year |-> IntOf(f[3], 0), month |-> IntOf(f[2], 0),
               day |-> IntOf(f[1], 0), hour |-> 0]>>
       ELSE <<>>

\* Birthday.__init__ succeeds (value is a str that is not empty).
Birthday(value) == strptime(value) # <<>>

---------------------------------------------------------------------------
(* Record: [name, phones, birthday], phones a sequence of phone values in  *)
(* list order, birthday the Birthday's value (<<>> is None).               *)

\* Record.__init__
Record(name) == [name |-> name, phones |-> <<>>, birthday |-> <<>>]

\* Record.find_phone finds a phone (the Phone object found is true).
find_phone(phones, number) == \E i \in 1..Len(phones) : phones[i] = number

\* remove_phone without its return in the loop: every phone of that value goes.
remove_phone_every(phones, number) ==
    LET Other(phone) == phone # number IN SelectSeq(phones, Other)

\* Record.remove_phone: the list without its first phone of that value.
remove_phone(phones, number) ==
    IF find_phone(phones, number)
    THEN LET i == CHOOSE k \in 1..Len(phones) :
                      /\ phones[k] = number
                      /\ \A j \in 1..(k - 1) : phones[j] # number
         IN SubSeq(phones, 1, i - 1) \o SubSeq(phones, i + 1, Len(phones))
    ELSE phones

\* Record.edit_phone: the exception raised ("" for none), its text, and the
\* record's phone list afterwards.
edit_phone(phones, old_number, new_number) ==
    IF find_phone(phones, old_number)
    THEN IF Phone(new_number)
         THEN [raised |-> "", text |-> "",
               phones |-> remove_phone(Append(phones, new_number), old_number)]
         ELSE [raised |-> "ValueError", text |-> PhoneError, phones |-> phones]
    ELSE [raised |-> "ValueError",
          text |-> "Old number " \o old_number \o " not found",
          phones |-> phones]

\* str(x) of a value that is None or a str.
PyStr(value) == IF value = <<>> THEN "None" ELSE value[1]

\* sep.join(strings)
RECURSIVE Join(_, _)
Join(strings, sep) ==
    IF strings = <<>> THEN ""
    ELSE IF Len(strings) = 1 THEN strings[1]
    ELSE strings[1] \o sep \o Join(Tail(strings), sep)

\* Record.__str__
RecordStr(record) ==
    LET birthday_str == IF BirthdayTruthy(record.birthday)
                        THEN ", birthday: " \o PyStr(record.birthday)
                        ELSE ""
    IN "Contact name: " \o record.name \o ", phones: "
       \o Join(record.phones, "; ") \o birthday_str

---------------------------------------------------------------------------
(* AddressBook: the records in the dict's (insertion) order.               *)

\* AddressBook()
AddressBook == <<>>

\* The position of the record of that name, 0 when there is none.
IndexOf(data, name) ==
    IF \E i \in 1..Len(data) : data[i].name = name
    THEN CHOOSE i \in 1..Len(data) : data[i].name = name
    ELSE 0

\* AddressBook.find finds a record (a Record object is true).
find(data, name) == IndexOf(data, name) # 0

\* AddressBook.add_record: a new key goes last, a known key keeps its place.
add_record(data, record) ==
    IF find(data, record.name)
    THEN [data EXCEPT ![IndexOf(data, record.name)] = record]
    ELSE Append(data, record)

\* One pass of the loop of get_upcoming_birthdays: whether it raised, and the
\* entry it appended (none, or one).
UpcomingOf(record, today) ==
    LET birthday_date == strptime(record.birthday[1])
        this_year == ReplaceYear(birthday_date[1], today.year)
        rolled == IF DatetimeLess(this_year[1], today)
                  THEN ReplaceYear(this_year[1], today.year + 1)
                  ELSE this_year
        shifted == IF weekday(rolled[1]) = 5 THEN PlusDays(rolled[1], 2)
                   ELSE IF weekday(rolled[1]) = 6 THEN PlusDays(rolled[1], 1)
                   ELSE rolled[1]
        days_until_birthday == TimedeltaDays(shifted, today)
    IN IF ~(BirthdayTruthy(record.birthday) /\ record.birthday # <<>>)
       THEN [raised |-> FALSE, items |-> <<>>]
       ELSE IF birthday_date = <<>> THEN [raised |-> FALSE, items |-> <<>>]
       ELSE IF this_year = <<>> \/ rolled = <<>>
       THEN [raised |-> TRUE, items |-> <<>>]
       ELSE IF 0 <= days_until_birthday /\ days_until_birthday <= 7
       THEN [raised |-> FALSE,
             items |-> <<[name |-> record.name, birthday |-> strftime(shifted)]>>]
       ELSE [raised |-> FALSE, items |-> <<>>]

\* AddressBook.get_upcoming_birthdays with datetime.now() = today: whether
\* it raised ValueError, and the list it returned.
RECURSIVE get_upcoming_birthdays(_, _)
get_upcoming_birthdays(data, today) ==
    IF data = <<>> THEN [raised |-> FALSE, items |-> <<>>]
    ELSE LET first == UpcomingOf(Head(data), today)
             rest == get_upcoming_birthdays(Tail(data), today)
         IN IF first.raised \/ rest.raised
            THEN [raised |-> TRUE, items |-> <<>>]
            ELSE [raised |-> FALSE, items |-> first.items \o rest.items]

---------------------------------------------------------------------------
(* pickle: the snapshot is the sequence of instructions that rebuilds the  *)
(* book, each [op, arg].                                                   *)

Op(op, arg) == [op |-> op, arg |-> arg]

\* The instructions that rebuild one item of the dict.
DumpItem(record) ==
    <<Op("KEY", record.name), Op("NEWOBJ", "Record"), Op("NAME", record.name),
      Op("MARK", "")>>
    \o [i \in 1..Len(record.phones) |-> Op("PHONE", record.phones[i])]
    \o <<Op("APPENDS", "")>>
    \o (IF record.birthday = <<>> THEN <<Op("NONE", "")>>
        ELSE <<Op("BIRTHDAY", record.birthday[1])>>)
    \o <<Op("BUILD", ""), Op("SETITEM", "")>>

RECURSIVE DumpItems(_)
DumpItems(data) ==
    IF data = <<>> THEN <<>> ELSE DumpItem(Head(data)) \o DumpItems(Tail(data))

\* pickle.dump(book, f): what is written to the file.
pickle_dump(data) ==
    <<Op("EMPTY_DICT", "AddressBook")>> \o DumpItems(data) \o <<Op("STOP", "")>>

\* dict.__setitem__
SetItem(data, key, record) ==
    IF \E i \in 1..Len(data) : data[i].name = key
    THEN [data EXCEPT ![CHOOSE i \in 1..Len(data) : data[i].name = key] = record]
    ELSE Append(data, record)

\* One instruction of the unpickler, on [data, key, rec, list].
Exec(o, st) ==
    CASE o.op = "EMPTY_DICT" -> [st EXCEPT !.data = <<>>]
      [] o.op = "KEY"        -> [st EXCEPT !.key = o.arg]
      [] o.op = "NEWOBJ"     -> [st EXCEPT !.rec = Record("")]
      [] o.op = "NAME"       -> [st EXCEPT !.rec.name = o.arg]
      [] o.op = "MARK"       -> [st EXCEPT !.list = <<>>]
      [] o.op = "PHONE"      -> [st EXCEPT !.list = Append(@, o.arg)]
      [] o.op = "APPENDS"    -> [st EXCEPT !.rec.phones = @ \o st.list]
      [] o.op = "NONE"       -> [st EXCEPT !.rec.birthday = <<>>]
      [] o.op = "BIRTHDAY"   -> [st EXCEPT !.rec.birthday = <<o.arg>>]
      [] o.op = "SETITEM"    -> [st EXCEPT !.data = SetItem(@, st.key, st.rec)]
      [] OTHER               -> st

RECURSIVE Unpickle(_, _)
Unpickle(ops, st) ==
    IF ops = <<>> \/ Head(ops).op = "STOP" THEN st.data
    ELSE Unpickle(Tail(ops), Exec(Head(ops), st))

\* pickle.load(f): the unpickler runs to the first STOP.
pickle_load(ops) ==
    Unpickle(ops, [data |-> <<>>, key |-> "", rec |-> Record(""), list |-> <<>>])

\* The file addressbook.pkl: whether it exists, and what it holds.
NoFile == [exists |-> FALSE, data |-> <<>>]

\* save_data with the file opened "ab" in place of "wb".
save_data_append(data) ==
    [exists |-> TRUE, data |-> disk.data \o pickle_dump(data)]

\* save_data: the file afterwards ("wb" truncates it).
save_data(data) == [exists |-> TRUE, data |-> pickle_dump(data)]

\* load_data: the book read, an empty one on FileNotFoundError.
load_data(file) == IF file.exists THEN pickle_load(file.data) ELSE AddressBook

---------------------------------------------------------------------------
(* The handlers.  A handler's result is [book, raised, text]: the book     *)
(* afterwards, the exception that left the handler ("" for a return), and  *)
(* the lines of the string returned, or the exception's message.           *)

Return(data, text) == [book |-> data, raised |-> "", text |-> text]
Raise(data, exception, message) ==
    [book |-> data, raised |-> exception, text |-> <<message>>]

WrongArguments == "Please provide the correct number of arguments."
ContactNotFound == "Contact not found."

\* input_error: the string the wrapped handler returns.
input_error(r) ==
    CASE r.raised = ""           -> r.text
      [] r.raised = "ValueError" -> <<"ValueError: " \o r.text[1]>>
      [] r.raised = "IndexError" -> <<WrongArguments>>
      [] r.raised = "KeyError"   -> <<ContactNotFound>>
      [] OTHER                   -> r.text

\* The message of the ValueError of unpacking n values into exactly k names.
UnpackError(k, n) ==
    IF n < k
    THEN "not enough values to unpack (expected " \o ToString(k) \o ", got "
         \o ToString(n) \o ")"
    ELSE "too many values to unpack (expected " \o ToString(k) \o ")"

\* add_contact
add_contact(args, data) ==
    IF Len(args) < 2
    THEN Raise(data, "ValueError",
               "not enough values to unpack (expected at least 2, got "
               \o ToString(Len(args)) \o ")")
    ELSE LET name == args[1]
             phone == args[2]
             known == find(data, name)
             data1 == IF known THEN data ELSE add_record(data, Record(name))
             message == IF known THEN "Contact updated." ELSE "Contact added."
         IN IF phone = "" THEN Return(data1, <<message>>)
            ELSE IF Phone(phone)
            THEN Return([data1 EXCEPT ![IndexOf(data1, name)].phones =
                                          Append(@, phone)], <<message>>)
            ELSE Raise(data1, "ValueError", PhoneError)

\* change_contact
change_contact(args, data) ==
    IF Len(args) # 3 THEN Raise(data, "ValueError", UnpackError(3, Len(args)))
    ELSE IF find(data, args[1])
    THEN LET i == IndexOf(data, args[1])
             e == edit_phone(data[i].phones, args[2], args[3])
         IN IF e.raised = ""
            THEN Return([data EXCEPT ![i].phones = e.phones],
                        <<"Contact updated.">>)
            ELSE Raise(data, e.raised, e.text)
    ELSE Raise(data, "KeyError", "Contact with name " \o args[1] \o " not found.")

\* show_phone
show_phone(args, data) ==
    IF Len(args) < 1 THEN Raise(data, "IndexError", "list index out of range")
    ELSE IF find(data, args[1])
    THEN Return(data, <<"Phone(s) for " \o args[1] \o ": "
                        \o Join(data[IndexOf(data, args[1])].phones, ", ")>>)
    ELSE Raise(data, "KeyError", "")

\* show_all_phones
show_all_phones(data) ==
    IF data = <<>> THEN Return(data, <<"No contacts available.">>)
    ELSE Return(data, [i \in 1..Len(data) |-> RecordStr(data[i])])

\* show_upcoming_birthdays, with datetime.now() = today
show_upcoming_birthdays(data, today) ==
    LET upcoming == get_upcoming_birthdays(data, today)
    IN IF upcoming.raised
       THEN Raise(data, "ValueError", "day is out of range for month")
       ELSE IF upcoming.items = <<>>
       THEN Return(data, <<"No upcoming birthdays.">>)
       ELSE Return(data, [i \in 1..Len(upcoming.items) |->
                            upcoming.items[i].name \o ": "
                            \o upcoming.items[i].birthday])

\* add_birthday
add_birthday(args, data) ==
    IF Len(args) # 2 THEN Raise(data, "ValueError", UnpackError(2, Len(args)))
    ELSE IF ~find(data, args[1])
    THEN Raise(data, "ValueError", "Contact " \o args[1] \o " not found.")
    ELSE IF Birthday(args[2])
    THEN Return([data EXCEPT ![IndexOf(data, args[1])].birthday = <<args[2]>>],
                <<"Birthday " \o args[2] \o " added to contact " \o args[1]
                  \o ".">>)
    ELSE Raise(data, "ValueError", BirthdayError)

\* show_birthday
show_birthday(args, data) ==
    IF Len(args) < 1 THEN Raise(data, "IndexError", "list index out of range")
    ELSE IF \/ ~find(data, args[1])
            \/ ~BirthdayTruthy(data[IndexOf(data, args[1])].birthday)
    THEN Raise(data, "ValueError",
               "No birthday found for contact " \o args[1] \o ".")
    ELSE Return(data, <<"Birthday of " \o args[1] \o ": "
                        \o PyStr(data[IndexOf(data, args[1])].birthday)>>)

---------------------------------------------------------------------------
(* The loop of main.  A line of input is the sequence of its words and of  *)
(* the runs of white space between and around them, each run being " ".    *)

IsWord(piece) == piece # " "

\* str.split()
split(user_input) == SelectSeq(user_input, IsWord)

\* parse_input without its call of lower.
lower_left_out(word) == word

\* str.lower, on the words used as commands.
lower(word) ==
    CASE word = "ADD"   -> "add"
      [] word = "CLOSE" -> "close"
      [] word = "Exit"  -> "exit"
      [] word = "EXIT"  -> "exit"
      [] word = "Hello" -> "hello"
      [] OTHER          -> word

\* The characters of the string that parse_input returns for a line with no
\* words: input_error turns the ValueError of the unpacking into a string.
ParseErrorChars ==
    <<
      "V", "a", "l", "u", "e", "E", "r", "r", "o", "r", ":", " ",
      "n", "o", "t", " ", "e", "n", "o", "u", "g", "h", " ", "v",
      "a", "l", "u", "e", "s", " ", "t", "o", " ", "u", "n", "p",
      "a", "c", "k", " ", "(", "e", "x", "p", "e", "c", "t", "e",
      "d", " ", "a", "t", " ", "l", "e", "a", "s", "t", " ", "1",
      ",", " ", "g", "o", "t", " ", "0", ")"
    >>

\* What main unpacks into command, *args: the tuple parse_input returns, or
\* the characters of its error string.
parse_input(user_input) ==
    LET words == split(user_input)
    IN IF words = <<>> THEN ParseErrorChars
       ELSE <<lower(words[1])>> \o Tail(words)

Command(user_input) == Head(parse_input(user_input))
Args(user_input) == Tail(parse_input(user_input))

\* main calls a wrapped handler and prints what it returned.
Handle(user_input, r) ==
    /\ book' = r.book
    /\ out' = input_error(r)
    /\ line' = user_input
    /\ \A i \in 1..Len(r.book) : Len(r.book[i].phones) <= MaxPhones
    /\ UNCHANGED <<disk, pc>>

\* A command that does not read the clock.
NoClock == now' = <<>>

\* book = load_data(), and the welcome.
MainStart ==
    /\ pc = "start"
    /\ book' = load_data(disk)
    /\ out' = <<"Welcome to the assistant bot!">>
    /\ line' = <<>>
    /\ pc' = "loop"
    /\ NoClock
    /\ UNCHANGED disk

\* close, exit: save_data(book), the farewell, break.
Close(user_input) ==
    /\ pc = "loop"
    /\ Command(user_input) \in {"close", "exit"}
    /\ disk' = save_data(book)
    /\ out' = <<"Good bye!">>
    /\ line' = user_input
    /\ pc' = "done"
    /\ NoClock
    /\ UNCHANGED book

Hello(user_input) ==
    /\ pc = "loop"
    /\ Command(user_input) = "hello"
    /\ out' = <<"How can I help you?">>
    /\ line' = user_input
    /\ NoClock
    /\ UNCHANGED <<book, disk, pc>>

Add(user_input) ==
    /\ pc = "loop"
    /\ Command(user_input) = "add"
    /\ Handle(user_input, add_contact(Args(user_input), book))
    /\ NoClock

Change(user_input) ==
    /\ pc = "loop"
    /\ Command(user_input) = "change"
    /\ Handle(user_input, change_contact(Args(user_input), book))
    /\ NoClock

ShowPhone(user_input) ==
    /\ pc = "loop"
    /\ Command(user_input) = "phone"
    /\ Handle(user_input, show_phone(Args(user_input), book))
    /\ NoClock

ShowAll(user_input) ==
    /\ pc = "loop"
    /\ Command(user_input) = "all"
    /\ Handle(user_input, show_all_phones(book))
    /\ NoClock

\* birthdays: the handler reads the clock, which shows today.
Birthdays(user_input, today) ==
    /\ pc = "loop"
    /\ Command(user_input) = "birthdays"
    /\ Handle(user_input, show_upcoming_birthdays(book, today))
    /\ now' = <<today>>

AddBirthday(user_input) ==
    /\ pc = "loop"
    /\ Command(user_input) = "add-birthday"
    /\ Handle(user_input, add_birthday(Args(user_input), book))
    /\ NoClock

ShowBirthday(user_input) ==
    /\ pc = "loop"
    /\ Command(user_input) = "show-birthday"
    /\ Handle(user_input, show_birthday(Args(user_input), book))
    /\ NoClock

Commands ==
    {"close", "exit", "hello", "add", "change", "phone", "all", "birthdays",
     "add-birthday", "show-birthday"}

\* The else branch of main.
Invalid(user_input) ==
    /\ pc = "loop"
    /\ Command(user_input) \notin Commands
    /\ out' = <<"Invalid command.">>
    /\ line' = user_input
    /\ NoClock
    /\ UNCHANGED <<book, disk, pc>>

\* The program is started again after it has ended.
Restart ==
    /\ pc = "done"
    /\ pc' = "start"
    /\ UNCHANGED <<book, disk, line, out, now>>

\* One run of the program on lines of Inputs, the clock showing a time of Clock.
Run(Inputs, Clock) ==
    \/ MainStart
    \/ \E user_input \in Inputs :
          \/ Close(user_input)
          \/ Hello(user_input)
          \/ Add(user_input)
          \/ Change(user_input)
          \/ ShowPhone(user_input)
          \/ ShowAll(user_input)
          \/ AddBirthday(user_input)
          \/ ShowBirthday(user_input)
          \/ Invalid(user_input)
    \/ \E user_input \in Inputs, today \in Clock : Birthdays(user_input, today)

At(y, m, d, h) == [year |-> y, month |-> m, day |-> d, hour |-> h]

Init ==
    /\ pc = "start"
    /\ book = AddressBook
    /\ disk = NoFile
    /\ line = <<>>
    /\ out = <<>>
    /\ now = <<>>

---------------------------------------------------------------------------
(* The lines typed and the times shown by the clock.                       *)

Lines ==
    {<<"add", "alice", p>> :
        p \in {"1234567890", ArabicIndicPhone, "12345", "12345678901", "12345abcde"}}
    \cup {<<"add", "bob", "1234567890">>, <<"add", "bob", "12345">>}
    \cup {<<"add">>, <<"add", "alice">>,
          <<" ", "ADD", " ", "bob", "1234567890", "extra">>}
    \cup {<<"change", "alice", o, p>> : o \in {"1234567890", ArabicIndicPhone},
             p \in {"1234567890", ArabicIndicPhone, "12345"}}
    \cup {<<"change">>, <<"change", "alice">>, <<"change", "alice", "1234567890">>,
          <<"change", "alice", "1234567890", ArabicIndicPhone, "extra">>}
    \cup {<<"phone", "alice">>, <<"phone", "bob">>, <<"phone">>}
    \cup {<<"all">>, <<"birthdays">>}
    \cup {<<"add-birthday", "alice", b>> :
             b \in {"15.06.1990", "31.02.2000", "1990-06-15"}}
    \cup {<<"add-birthday">>, <<"add-birthday", "alice">>,
          <<"add-birthday", "alice", "15.06.1990", "extra">>}
    \cup {<<"show-birthday", "alice">>, <<"show-birthday", "bob">>,
          <<"show-birthday">>}
    \cup {<<"hello">>, <<"Hello", " ">>, <<"foo">>, <<>>, <<" ">>}
    \cup {<<"close">>, <<"exit">>, <<"CLOSE">>, <<" ", "Exit", " ">>}

Clock == {At(2024, 6, 10, 10), At(2024, 6, 14, 0)}

Next == Run(Lines, Clock)

Spec == Init /\ [][Next]_vars

\* A birthday, next to a record without one, on the days of three Junes (the 15th of June is
\* a Thursday in 2023, a Saturday in 2024, a Sunday in 2025) and around the
\* new year, at midnight and at ten o'clock.
LinesUpcoming ==
    {<<"add", "alice", "1234567890">>, <<"add", "bob", "1234567890">>,
     <<"add-birthday", "alice", "15.06.1990">>,
     <<"add-birthday", "alice", "01.01.1995">>,
     <<"birthdays">>, <<"change", "alice", "1234567890", "1234567890">>,
     <<"phone", "alice">>, <<"all">>, <<"show-birthday", "alice">>,
     <<"hello">>, <<"foo">>, <<"close">>}

ClockUpcoming ==
    {At(y, 6, d, h) : y \in 2023..2025, d \in 5..18, h \in {0, 10}}
    \cup {At(2024, 12, d, h) : d \in 23..31, h \in {0, 10}}

NextUpcoming == Run(LinesUpcoming, ClockUpcoming)

SpecUpcoming == Init /\ [][NextUpcoming]_vars

\* A birthday on the 29th of February next to another one, in a leap year
\* and in a year that is none.
LinesLeap ==
    {<<"add", "alice", "1234567890">>, <<"add", "bob", "1234567890">>,
     <<"add-birthday", "alice", "29.02.2000">>,
     <<"add-birthday", "alice", "15.06.1990">>,
     <<"add-birthday", "bob", "15.06.1990">>,
     <<"add-birthday", "bob", "01.01.1995">>,
     <<"birthdays">>, <<"change", "alice", "1234567890", "1234567890">>,
     <<"phone", "alice">>, <<"all">>, <<"show-birthday", "alice">>,
     <<"hello">>, <<"foo">>, <<"close">>}

ClockLeap ==
    {At(2023, 6, 12, 10), At(2024, 6, 12, 10), At(2024, 2, 26, 10),
     At(2024, 3, 1, 10), At(2023, 2, 26, 0), At(2024, 12, 30, 0)}

NextLeap == Run(LinesLeap, ClockLeap)

SpecLeap == Init /\ [][NextLeap]_vars

\* Runs of the program one after the other, each on the file the last left.
LinesPersist ==
    {<<"add", "alice", "1234567890">>, <<"add", "alice", "0987654321">>,
     <<"add", "bob", "12345">>, <<"add-birthday", "alice", "15.06.1990">>,
     <<"change", "alice", "1234567890", "0987654321">>,
     <<"phone", "alice">>, <<"all">>, <<"birthdays">>,
     <<"show-birthday", "alice">>, <<"hello">>, <<"foo">>,
     <<"close">>, <<"EXIT">>, <<"exit", "now">>}

ClockPersist == {At(2024, 6, 12, 10)}

NextPersist == Run(LinesPersist, ClockPersist) \/ Restart

SpecPersist == Init /\ [][NextPersist]_vars

---------------------------------------------------------------------------
(* What the claims speak of.                                               *)

\* A step of the loop: main was at input, and line' is the line it handled.
AtInput == pc = "loop"

\* How many occurrences of a value a list holds.
RECURSIVE Count(_, _)
Count(list, value) ==
    IF list = <<>> THEN 0
    ELSE (IF Head(list) = value THEN 1 ELSE 0) + Count(Tail(list), value)

\* The phone list of the record of that name.
PhonesOf(data, name) == data[IndexOf(data, name)].phones

\* C1. Every phone of every record is a string of exactly ten ASCII digits.
C1_PhonesAreTenAsciiDigits ==
    \A i \in 1..Len(book) : \A j \in 1..Len(book[i].phones) :
        IsTenAsciiDigits(book[i].phones[j])

\* change name old new, on a record of the book, with a valid new.
IsEdit(user_input) ==
    /\ AtInput
    /\ Command(user_input) = "change"
    /\ Len(Args(user_input)) = 3
    /\ find(book, Args(user_input)[1])
    /\ Phone(Args(user_input)[3])

\* C2 as stated: after edit_phone(old, new) on a list that holds old, the
\* list holds new and does not hold old; when old is not in the list, the
\* phone-not-found error is reported and the list is unchanged.
C2_EditReplacesOld ==
    [][IsEdit(line') =>
          LET name == Args(line')[1]
              old == Args(line')[2]
              new == Args(line')[3]
          IN IF find_phone(PhonesOf(book, name), old)
             THEN /\ find_phone(PhonesOf(book', name), new)
                  /\ ~find_phone(PhonesOf(book', name), old)
             ELSE /\ out' = <<"ValueError: Old number " \o old \o " not found">>
                  /\ book' = book]_vars

\* C2, amended: after edit_phone(old, new) on a list that holds old, new is
\* the last phone of the list, which holds one old fewer and one new more
\* than before and every other phone as often as before; when old is not in
\* the list, the phone-not-found error is reported and the list is unchanged.
C2_EditMovesOneOld ==
    [][IsEdit(line') =>
          LET name == Args(line')[1]
              old == Args(line')[2]
              new == Args(line')[3]
              before == PhonesOf(book, name)
              after == PhonesOf(book', name)
          IN IF find_phone(before, old)
             THEN /\ out' = <<"Contact updated.">>
                  /\ Len(after) = Len(before)
                  /\ after[Len(after)] = new
                  /\ \A p \in {before[i] : i \in 1..Len(before)} \cup {new} :
                        Count(after, p) = Count(before, p)
                                          - (IF p = old THEN 1 ELSE 0)
                                          + (IF p = new THEN 1 ELSE 0)
                  /\ \A i \in 1..Len(book) :
                        book[i].name # name => book'[i] = book[i]
             ELSE /\ out' = <<"ValueError: Old number " \o old \o " not found">>
                  /\ book' = book]_vars

\* C2's case: an edit went through on a list that held old twice, so the list
\* still holds old, next to the new phone.
C2_Witness ==
    /\ Command(line) = "change"
    /\ out = <<"Contact updated.">>
    /\ Args(line)[2] # Args(line)[3]
    /\ find_phone(PhonesOf(book, Args(line)[1]), Args(line)[2])
    /\ find_phone(PhonesOf(book, Args(line)[1]), Args(line)[3])

\* The number of arguments a command requires.
Required(command) ==
    CASE command = "add"           -> 2
      [] command = "change"        -> 3
      [] command = "phone"         -> 1
      [] command = "add-birthday"  -> 2
      [] command = "show-birthday" -> 1
      [] OTHER                     -> 0

\* C3. A command given fewer arguments than it requires prints "Please
\* provide the correct number of arguments." and leaves the book unchanged.
C3_FewArguments ==
    [][AtInput /\ Len(Args(line')) < Required(Command(line'))
          => out' = <<WrongArguments>> /\ book' = book]_vars

\* C4. change, phone, add-birthday and show-birthday, given the right number
\* of arguments and a name that is no key of the book, print "Contact not
\* found." and leave the book unchanged.
C4_UnknownName ==
    [][/\ AtInput
       /\ Command(line') \in {"change", "phone", "add-birthday", "show-birthday"}
       /\ Len(Args(line')) = Required(Command(line'))
       /\ ~find(book, Args(line')[1])
          => out' = <<ContactNotFound>> /\ book' = book]_vars

\* The first word of a line, in the spellings typed, is close or exit.
IsCloseLine(user_input) ==
    /\ split(user_input) # <<>>
    /\ Head(split(user_input)) \in {"close", "exit", "CLOSE", "Exit", "EXIT"}

\* The first word of a line is a command, in some spelling.
IsKnownLine(user_input) ==
    /\ split(user_input) # <<>>
    /\ Head(split(user_input)) \in Commands \cup {"ADD", "CLOSE", "Exit", "EXIT", "Hello"}

\* C8 as stated: whatever the line, the loop prints a result of one line and
\* goes on, unless the first word is close or exit in any case, and then it
\* stops; a first word that is no command prints "Invalid command.".
C8_OneLineAndOn ==
    [][AtInput =>
          /\ Len(out') = 1
          /\ pc' = (IF IsCloseLine(line') THEN "done" ELSE "loop")
          /\ (~IsKnownLine(line') => out' = <<"Invalid command.">>)]_vars

\* C8, amended: whatever the line, the loop prints a result and goes on,
\* unless the first word is close or exit in any case, and then it stops;
\* the result is one line, except that all and birthdays print one line for
\* each record they list; a first word that is no command prints "Invalid
\* command.".
C8_ResultAndOn ==
    [][AtInput =>
          /\ Len(out') >= 1
          /\ (Command(line') \notin {"all", "birthdays"} => Len(out') = 1)
          /\ (Command(line') = "all" /\ book # <<>> => Len(out') = Len(book))
          /\ (Command(line') = "birthdays" => Len(out') <= Len(book) \/ Len(out') = 1)
          /\ pc' = (IF IsCloseLine(line') THEN "done" ELSE "loop")
          /\ (~IsKnownLine(line') => out' = <<"Invalid command.">>)]_vars

\* C8's case: all has printed two records on two lines, and the loop is at
\* input again.
C8_Witness ==
    /\ pc = "loop"
    /\ Command(line) = "all"
    /\ Len(book) = 2
    /\ out = <<RecordStr(book[1]), RecordStr(book[2])>>

\* What the handler of a line does to a book (birthdays, which reads the
\* clock and writes nothing, aside).
Outcome(user_input, data) ==
    CASE Command(user_input) = "add" -> add_contact(Args(user_input), data)
      [] Command(user_input) = "change" -> change_contact(Args(user_input), data)
      [] Command(user_input) = "phone" -> show_phone(Args(user_input), data)
      [] Command(user_input) = "add-birthday" -> add_birthday(Args(user_input), data)
      [] Command(user_input) = "show-birthday" -> show_birthday(Args(user_input), data)
      [] OTHER -> Return(data, <<>>)

\* C9. A command whose handler ends in a caught error leaves the book as it
\* was.
C9_ErrorLeavesBook ==
    [][AtInput /\ Outcome(line', book).raised # "" => book' = book]_vars

\* C10. show-birthday of a record without a birthday reports that none was
\* found, and the record's text has no birthday suffix; of a record with a
\* birthday it gives the stored string, which the record's text ends with.
C10_ShowBirthday ==
    /\ Command(line) = "show-birthday"
    /\ Len(Args(line)) = 1
    /\ find(book, Args(line)[1])
    => LET name == Args(line)[1]
           record == book[IndexOf(book, name)]
           text == "Contact name: " \o name \o ", phones: "
                   \o Join(record.phones, "; ")
           none == "No birthday found for contact " \o name \o "."
       IN IF record.birthday = <<>>
          THEN /\ out \in {<<none>>, <<"ValueError: " \o none>>}
               /\ RecordStr(record) = text
          ELSE /\ out = <<"Birthday of " \o name \o ": " \o record.birthday[1]>>
               /\ RecordStr(record) = text \o ", birthday: " \o record.birthday[1]

\* The birthday's occurrence this year, or next year when that day is over,
\* moved to the Monday when it falls on a weekend, and how many days after
\* today's date it lies.
Occurrence(birthday, today) ==
    LET born == strptime(birthday)[1]
        this_year == [born EXCEPT !.year = today.year]
        coming == IF toordinal(this_year) < toordinal(today)
                  THEN [born EXCEPT !.year = today.year + 1]
                  ELSE this_year
        moved == IF weekday(coming) = 5 THEN PlusDays(coming, 2)
                 ELSE IF weekday(coming) = 6 THEN PlusDays(coming, 1)
                 ELSE coming
    IN [date |-> moved, days |-> toordinal(moved) - toordinal(today)]

\* birthdays has listed the record of that name with that date.
Listed(name, date) == \E j \in 1..Len(out) : out[j] = name \o ": " \o date

\* C5. At any date and time of day, get_upcoming_birthdays lists a record
\* exactly when its birthday's coming occurrence, moved off the weekend, lies
\* 0 to 7 days after today's date, and lists it with that date.
C5_UpcomingWithinWeek ==
    now # <<>> =>
        \A i \in 1..Len(book) :
            book[i].birthday # <<>> =>
                LET o == Occurrence(book[i].birthday[1], now[1])
                IN Listed(book[i].name, strftime(o.date))
                   <=> (0 <= o.days /\ o.days <= 7)

\* The entries get_upcoming_birthdays gives for a book of that record alone.
Alone(record, today) == get_upcoming_birthdays(<<record>>, today)

RECURSIVE EachAlone(_, _)
EachAlone(data, today) ==
    IF data = <<>> THEN <<>>
    ELSE Alone(Head(data), today).items \o EachAlone(Tail(data), today)

\* C6. birthdays ends without an error and lists, in the book's order, each
\* record that it would list were the record alone in the book.
C6_EachRecordOnItsOwn ==
    now # <<>> =>
        /\ out # <<"ValueError: day is out of range for month">>
        /\ LET items == EachAlone(book, now[1])
           IN out = IF items = <<>> THEN <<"No upcoming birthdays.">>
                    ELSE [i \in 1..Len(items) |->
                            items[i].name \o ": " \o items[i].birthday]

\* C7. close and exit, and nothing else, write the file, with the whole
\* book; the book read from it at the next start is the book that was in
\* memory at the close; a start without a file gives an empty book.
C7_SaveThenLoad ==
    [][/\ (disk' # disk => AtInput /\ IsCloseLine(line'))
       /\ (AtInput /\ IsCloseLine(line') =>
              disk'.exists /\ load_data(disk') = book /\ book' = book)
       /\ (pc = "start" =>
              book' = IF disk.exists THEN book ELSE <<>>)]_vars

\* C7's case: a later run has read back a book of two records, one with two
\* phones and a birthday, one without any phone.
C7_Witness ==
    /\ pc = "loop"
    /\ disk.exists
    /\ out = <<"Welcome to the assistant bot!">>
    /\ Len(book) = 2
    /\ \E i \in 1..2 : Len(book[i].phones) = 2 /\ book[i].birthday # <<>>
                       /\ book[i].phones[1] # book[i].phones[2]
    /\ \E i \in 1..2 : book[i].phones = <<>>

====
